---- MODULE Spec2Model ----
(***************************************************************************)
(* A model of the doctor-patient consultation RAG chatbot: the paragraph   *)
(* chunker (chunker.py), the FAISS index store (embed_and_store.py), the   *)
(* Streamlit application (chatbot_app.py) with its cached index handles,   *)
(* and the report parser of process_query.                                 *)
(*                                                                         *)
(* Strings are modelled as sequences of lexemes: a lexeme is a whitespace  *)
(* character (" " or "\n"), a punctuation character, or a whole word.      *)
(* Substring search, split, replace, strip and lower are computed on these *)
(* sequences the way Python computes them on characters.                   *)
(***************************************************************************)
EXTENDS Integers, Sequences, FiniteSets, TLC

VARIABLES
    \* ---- chunker.py: one call of split_text_into_chunks
    text,            \* the argument text
    max_tokens,      \* the argument max_tokens
    chunks,          \* the returned list (<<>> before the call returns)
    chunk_done,      \* TRUE once the call has returned
    \* ---- chatbot_app.py, report branch of process_query
    response,        \* llm(messages).content
    diagnosis,       \* the diagnosis handed to generate_pdf
    meds,            \* the medications handed to generate_pdf
    parse_done,      \* TRUE once a response has been parsed
    \* ---- the disk
    faiss_store,     \* faiss_store/<index_name>: the persisted index
    meta_files,      \* faiss_store/<index_name>_meta.txt
    builds,          \* number of indexes saved so far (stamps each build)
    \* ---- the process
    vs_cache,        \* st.cache_resource of load_vectorstore, per index_name
    \* ---- st.session_state
    messages,
    index_loaded,
    current_index,
    \* ---- the latest call of process_uploaded_file or process_query
    ret

chunkVars == <<text, max_tokens, chunks, chunk_done>>
parseVars == <<response, diagnosis, meds, parse_done>>
diskVars == <<faiss_store, meta_files, builds>>
sessionVars == <<messages, index_loaded, current_index>>
appVars == <<diskVars, vs_cache, sessionVars, ret>>
vars == <<chunkVars, parseVars, appVars>>

(***************************************************************************)
(* Bounds of the model.                                                    *)
(***************************************************************************)
MaxTextLen == 7      \* longest text handed to the chunker, in lexemes
MaxBudget == 4       \* largest max_tokens handed to the chunker
MaxResponseLen == 3  \* longest free-form model response, in lexemes
MaxBuilds == 2       \* indexes saved in one run of the model
MaxMessages == 2     \* chat messages kept in one run of the model

(***************************************************************************)
(* Python string operations on lexeme sequences.                           *)
(***************************************************************************)
Whitespace == {" ", "\n"}

\* sub occurs in s at position i
MatchAt(s, sub, i) ==
    /\ i >= 1
    /\ i + Len(sub) - 1 <= Len(s)
    /\ \A k \in 1..Len(sub) : s[i + k - 1] = sub[k]

\* Python: sub in s
Contains(s, sub) == \E i \in 1..(Len(s) + 1) : MatchAt(s, sub, i)

\* Python: s.split(sep), sep non-empty: leftmost, non-overlapping separators
RECURSIVE SplitFrom(_, _, _, _)
SplitFrom(s, sep, i, start) ==
    IF i + Len(sep) - 1 > Len(s)
    THEN <<SubSeq(s, start, Len(s))>>
    ELSE IF MatchAt(s, sep, i)
         THEN <<SubSeq(s, start, i - 1)>>
                  \o SplitFrom(s, sep, i + Len(sep), i + Len(sep))
         ELSE SplitFrom(s, sep, i + 1, start)

Split(s, sep) == SplitFrom(s, sep, 1, 1)

\* Python: s.replace(old, new), old non-empty: leftmost, non-overlapping
RECURSIVE ReplaceFrom(_, _, _, _)
ReplaceFrom(s, old, new, i) ==
    IF i > Len(s)
    THEN <<>>
    ELSE IF MatchAt(s, old, i)
         THEN new \o ReplaceFrom(s, old, new, i + Len(old))
         ELSE <<s[i]>> \o ReplaceFrom(s, old, new, i + 1)

Replace(s, old, new) == ReplaceFrom(s, old, new, 1)

\* Python: s.strip()
RECURSIVE LStrip(_)
LStrip(s) ==
    IF s # <<>> /\ Head(s) \in Whitespace THEN LStrip(Tail(s)) ELSE s

RECURSIVE RStrip(_)
RStrip(s) ==
    IF s # <<>> /\ s[Len(s)] \in Whitespace
    THEN RStrip(SubSeq(s, 1, Len(s) - 1))
    ELSE s

Strip(s) == RStrip(LStrip(s))

(***************************************************************************)
(* chunker.py                                                              *)
(***************************************************************************)
ChunkAlphabet == {"a", "b", " ", "\n"}

Texts == UNION {[1..n -> ChunkAlphabet] : n \in 0..MaxTextLen}

Budgets == 1..MaxBudget

\* the paragraph separator "\n\n"
ParagraphSep == <<"\n", "\n">>

\* len(encoding.encode(s)) for the cl100k_base encoding of gpt-3.5-turbo, on
\* lexeme sequences: the encoding first cuts the text into pieces, a word
\* with at most one space before it, or a run of whitespace (without the
\* space that belongs to the following word); each piece is one token here.
NumTokens(s) ==
    LET words == {i \in 1..Len(s) : s[i] \notin Whitespace}
        runEnds == {i \in 1..Len(s) :
                      /\ s[i] \in Whitespace
                      /\ (i = Len(s) \/ s[i + 1] \notin Whitespace)}
        absorbed(i) == /\ s[i] = " "
                       /\ i < Len(s)
                       /\ (i = 1 \/ s[i - 1] \notin Whitespace)
    IN Cardinality(words) + Cardinality({i \in runEnds : ~absorbed(i)})

\* the loop's test: num_tokens > max_tokens
OverflowsOffByOne(candidate, budget) == NumTokens(candidate) > budget + 1

Overflows(candidate, budget) == NumTokens(candidate) > budget

\* if current_chunk: chunks.append(current_chunk.strip())
FlushChunk(out, current_chunk) ==
    IF current_chunk # <<>> THEN Append(out, Strip(current_chunk)) ELSE out

\* current_chunk = para, after an overflow
AfterOverflowDropsPara(para) == <<>>

AfterOverflow(para) == para

\* the for loop over the paragraphs, and the final flush
RECURSIVE ChunkLoop(_, _, _, _, _)
ChunkLoop(paragraphs, i, out, current_chunk, budget) ==
    IF i > Len(paragraphs)
    THEN FlushChunk(out, current_chunk)
    ELSE LET para == paragraphs[i]
             candidate == current_chunk \o ParagraphSep \o para
         IN IF Overflows(candidate, budget)
            THEN ChunkLoop(paragraphs, i + 1, FlushChunk(out, current_chunk),
                           AfterOverflow(para), budget)
            ELSE ChunkLoop(paragraphs, i + 1, out, candidate, budget)

split_text_into_chunks(t, budget) ==
    ChunkLoop(Split(t, ParagraphSep), 1, <<>>, <<>>, budget)

InitChunk ==
    /\ text \in Texts
    /\ max_tokens \in Budgets
    /\ chunks = <<>>
    /\ chunk_done = FALSE

CallSplitTextIntoChunks ==
    /\ ~chunk_done
    /\ chunks' = split_text_into_chunks(text, max_tokens)
    /\ chunk_done' = TRUE
    /\ UNCHANGED <<text, max_tokens>>

(***************************************************************************)
(* chatbot_app.py, process_query: parsing of the report response           *)
(***************************************************************************)
NotFound == <<"Not found.">>

DiagnosisMarker == <<"Diagnosis">>

MedicationsMarker == <<"Medications">>

\* diagnosis = parts[0].replace("Diagnosis", "").strip(), else the response
ExtractDiagnosisKeepsMarker(resp) ==
    IF Contains(resp, DiagnosisMarker)
    THEN Strip(Split(resp, MedicationsMarker)[1])
    ELSE resp

ExtractDiagnosis(resp) ==
    IF Contains(resp, DiagnosisMarker)
    THEN Strip(Replace(Split(resp, MedicationsMarker)[1], DiagnosisMarker, <<>>))
    ELSE resp

\* meds = parts[1].strip() if len(parts) > 1 else "Not found."
ExtractMeds(resp) ==
    IF Contains(resp, DiagnosisMarker)
    THEN LET parts == Split(resp, MedicationsMarker)
         IN IF Len(parts) > 1 THEN Strip(parts[2]) ELSE NotFound
    ELSE NotFound

ReportAlphabet == {"Diagnosis", "Medications", ":", " ", "\n", "Flu", "Tamiflu"}

\* free-form model responses
ShortResponses == UNION {[1..n -> ReportAlphabet] : n \in 0..MaxResponseLen}

\* what may follow a marker
Separators == {<<":">>, <<":", " ">>, <<" ">>, <<"\n">>, <<" ", "-", " ">>}

DiagnosisTexts == {<<"Flu">>, <<"Flu", " ", "Flu">>}

MedicationTexts == {<<"Tamiflu">>, <<"Tamiflu", ":", "Tamiflu">>}

\* 'Diagnosis' + sep + D + line break + 'Medications' + sep + M
StructuredResponse(sep, D, M) ==
    DiagnosisMarker \o sep \o D \o <<"\n">> \o MedicationsMarker \o sep \o M

StructuredResponses ==
    {StructuredResponse(sep, D, M) :
        sep \in Separators, D \in DiagnosisTexts, M \in MedicationTexts}

\* "Diagnosis: Flu\nMedications: Tamiflu"
ExampleResponse == StructuredResponse(<<":", " ">>, <<"Flu">>, <<"Tamiflu">>)

Responses == ShortResponses \cup StructuredResponses

InitParse ==
    /\ response \in Responses
    /\ diagnosis = NotFound
    /\ meds = NotFound
    /\ parse_done = FALSE

InitParseIdle ==
    /\ response = <<>>
    /\ diagnosis = NotFound
    /\ meds = NotFound
    /\ parse_done = FALSE

InitChunkIdle ==
    /\ text = <<>>
    /\ max_tokens = 0
    /\ chunks = <<>>
    /\ chunk_done = FALSE

ParseReportResponse ==
    /\ ~parse_done
    /\ diagnosis' = ExtractDiagnosis(response)
    /\ meds' = ExtractMeds(response)
    /\ parse_done' = TRUE
    /\ UNCHANGED response

(***************************************************************************)
(* process_query: classification of the query                              *)
(***************************************************************************)
LowerLexeme(c) ==
    CASE c = "GENERATE" -> "generate"
      [] c = "Generate" -> "generate"
      [] c = "REPORT" -> "report"
      [] c = "Report" -> "report"
      [] c = "Download" -> "download"
      [] c = "Please" -> "please"
      [] OTHER -> c

\* Python: s.lower()
Lower(s) == [i \in 1..Len(s) |-> LowerLexeme(s[i])]

\* "generate report" in query.lower() or "download report" in query.lower()
IsReportQueryCaseSensitive(query) ==
    \/ Contains(query, <<"generate", " ", "report">>)
    \/ Contains(query, <<"download", " ", "report">>)

IsReportQuery(query) ==
    \/ Contains(Lower(query), <<"generate", " ", "report">>)
    \/ Contains(Lower(query), <<"download", " ", "report">>)

\* the fixed query of the report branch
ReportRetrievalQuery == <<"patient summary, diagnosis and medications">>

\* what the retriever is asked
RetrievalQuery(query) ==
    IF IsReportQuery(query) THEN ReportRetrievalQuery ELSE query

\* the query of the sidebar's Generate Report button
GenerateReportButton == <<"Generate", " ", "report">>

PleaseGenerateReportNow ==
    <<"Please", " ", "GENERATE", " ", "REPORT", " ", "now">>

GenerateASummary == <<"generate", " ", "a", " ", "summary">>

Queries ==
    { PleaseGenerateReportNow,
      GenerateASummary,
      GenerateReportButton,
      <<"Download", " ", "Report">>,
      <<"re", "generate", " ", "report", "s">>,
      <<"generate", "\n", "report">>,
      <<"report", " ", "generate">> }

(***************************************************************************)
(* transcribe.py                                                           *)
(***************************************************************************)
\* the text field of the transcription service's reply
ServiceTexts == {<<"a", "\n", "\n", "b">>, <<"c", " ">>, <<" ">>}

ServiceReplies ==
    {[status |-> 200, text |-> t] : t \in ServiceTexts}
        \cup {[status |-> 500, text |-> <<>>]}

\* the transcript returned, and whether the .txt beside the audio was written
transcribe_audio(reply) ==
    IF reply.status = 200
    THEN [transcript |-> Strip(reply.text), txt_written |-> TRUE]
    ELSE [transcript |-> <<>>, txt_written |-> FALSE]

(***************************************************************************)
(* embed_and_store.py                                                      *)
(***************************************************************************)
\* max_tokens=300 at both call sites of the chunker
DefaultMaxTokens == 300

\* search_kwargs={"k": 4}
K == 4

FileNames ==
    { <<"a", " ", "b", ".mp3">>,
      <<"a", "_", "b", ".mp3">> }

\* uploaded_file.name.replace('.mp3', '').replace(' ', '_')
IndexNameOf(file_name) ==
    Replace(Replace(file_name, <<".mp3">>, <<>>), <<" ">>, <<"_">>)

\* st.session_state.current_index = "RES0215"
DefaultIndex == <<"RES0215">>

IndexNames == {IndexNameOf(f) : f \in FileNames} \cup {DefaultIndex}

\* what faiss_store/<index_name> holds
AbsentIndex == [kind |-> "absent", ver |-> 0, chunks |-> <<>>]

CorruptIndex == [kind |-> "corrupt", ver |-> 0, chunks |-> <<>>]

SavedIndex(ver, cs) == [kind |-> "index", ver |-> ver, chunks |-> cs]

NoMeta == [exists |-> FALSE, chunks |-> <<>>]

\* where a call may raise: in the chunker, in get_embeddings/FAISS.from_texts,
\* in save_local, or in writing the metadata file
Faults == {"none", "chunk", "embed", "save", "meta"}

\* a store that adds the chunks to the index already at index_dir
StoreInFaissMerging(store, meta, cs, index_name, ver, fault) ==
    LET merged == store[index_name].chunks \o cs
    IN CASE fault = "embed" ->
              [store |-> store, meta |-> meta, ok |-> FALSE]
         [] fault = "save" ->
              [store |-> [store EXCEPT ![index_name] = CorruptIndex],
               meta |-> meta, ok |-> FALSE]
         [] fault = "meta" ->
              [store |-> [store EXCEPT ![index_name] = SavedIndex(ver, merged)],
               meta |-> meta, ok |-> FALSE]
         [] OTHER ->
              [store |-> [store EXCEPT ![index_name] = SavedIndex(ver, merged)],
               meta |-> [meta EXCEPT ![index_name] =
                                        [exists |-> TRUE, chunks |-> cs]],
               ok |-> TRUE]

\* store_in_faiss(chunks, index_dir): the disk after the call, and whether it
\* completed (ok) or raised
store_in_faiss(store, meta, cs, index_name, ver, fault) ==
    LET deleted == [store EXCEPT ![index_name] = AbsentIndex]
    IN CASE fault = "embed" ->
              [store |-> deleted, meta |-> meta, ok |-> FALSE]
         [] fault = "save" ->
              [store |-> [deleted EXCEPT ![index_name] = CorruptIndex],
               meta |-> meta, ok |-> FALSE]
         [] fault = "meta" ->
              [store |-> [deleted EXCEPT ![index_name] = SavedIndex(ver, cs)],
               meta |-> meta, ok |-> FALSE]
         [] OTHER ->
              [store |-> [deleted EXCEPT ![index_name] = SavedIndex(ver, cs)],
               meta |-> [meta EXCEPT ![index_name] =
                                        [exists |-> TRUE, chunks |-> cs]],
               ok |-> TRUE]

(***************************************************************************)
(* chatbot_app.py                                                          *)
(***************************************************************************)
\* the record of the latest call
NoCall ==
    [ fn |-> "none",
      index_name |-> DefaultIndex,
      \* process_uploaded_file
      value |-> FALSE,             \* the value returned
      exit |-> "none",             \* the path the call left by
      tmp_exists |-> FALSE,        \* the temporary audio file is still there
      txt_exists |-> FALSE,        \* the transcript beside it was written
      given_chunks |-> <<>>,       \* the chunks handed to store_in_faiss
      replaced |-> FALSE,          \* index_dir held another index before
      \* process_query
      query |-> <<>>,
      type |-> "none",
      sources |-> {},
      mode |-> "none",
      retrieval_query |-> <<>>,
      retriever_created |-> FALSE,
      llm_created |-> FALSE,
      llm_called |-> FALSE,
      raised |-> FALSE ]

InitApp ==
    /\ faiss_store = [n \in IndexNames |-> AbsentIndex]
    /\ meta_files = [n \in IndexNames |-> NoMeta]
    /\ builds = 0
    /\ vs_cache = [n \in IndexNames |-> [cached |-> FALSE, vs |-> AbsentIndex]]
    /\ messages = <<>>
    /\ index_loaded = FALSE
    /\ current_index = DefaultIndex
    /\ ret = NoCall

\* process_uploaded_file(uploaded_file): reply is what the transcription
\* service answers for the audio, fault where the call raises
process_uploaded_file(file_name, reply, fault) ==
    LET t == transcribe_audio(reply)
        index_name == IndexNameOf(file_name)
        cs == split_text_into_chunks(t.transcript, DefaultMaxTokens)
        st == store_in_faiss(faiss_store, meta_files, cs, index_name,
                             builds + 1, fault)
        call == [NoCall EXCEPT !.fn = "process_uploaded_file",
                               !.index_name = index_name,
                               !.txt_exists = t.txt_written]
        stored == [call EXCEPT !.given_chunks = cs,
                               !.replaced =
                                   (faiss_store[index_name].kind = "index")]
    IN /\ builds < MaxBuilds
       /\ IF t.transcript = <<>>
          THEN /\ fault = "none"
               /\ ret' = [call EXCEPT !.exit = "no_transcript",
                                      !.tmp_exists = TRUE]
               /\ UNCHANGED <<diskVars, index_loaded, current_index>>
          ELSE IF fault = "chunk"
          THEN /\ ret' = [call EXCEPT !.exit = "exception"]
               /\ UNCHANGED <<diskVars, index_loaded, current_index>>
          ELSE /\ faiss_store' = st.store
               /\ meta_files' = st.meta
               /\ builds' = IF st.store[index_name].kind = "index"
                            THEN builds + 1 ELSE builds
               /\ IF st.ok
                  THEN /\ current_index' = index_name
                       /\ index_loaded' = TRUE
                       /\ ret' = [stored EXCEPT !.exit = "success",
                                                !.value = TRUE]
                  ELSE /\ UNCHANGED <<index_loaded, current_index>>
                       /\ ret' = [stored EXCEPT !.exit = "exception"]
       /\ UNCHANGED <<vs_cache, chunkVars, parseVars>>

\* load_vectorstore(index_name) under @st.cache_resource: a value returned
\* once (None included) is returned again for the same index_name; a call
\* that raises caches nothing
load_vectorstore(cache, store, index_name) ==
    IF cache[index_name].cached
    THEN [raised |-> FALSE, vs |-> cache[index_name].vs, cache |-> cache]
    ELSE IF store[index_name].kind = "corrupt"
    THEN [raised |-> TRUE, vs |-> AbsentIndex, cache |-> cache]
    ELSE [raised |-> FALSE, vs |-> store[index_name],
          cache |-> [cache EXCEPT ![index_name] =
                        [cached |-> TRUE, vs |-> store[index_name]]]]

\* the documents of a loaded index, each stamped with its build
Documents(vs) ==
    {[ver |-> vs.ver, page_content |-> vs.chunks[i]] : i \in 1..Len(vs.chunks)}

Min(x, y) == IF x <= y THEN x ELSE y

\* retriever.get_relevant_documents: the k most similar documents; which ones
\* they are is the embedding's choice
Retrieve(vs, k) ==
    {S \in SUBSET Documents(vs) :
        Cardinality(S) = Min(k, Cardinality(Documents(vs)))}

\* what the model may answer
LlmReplies ==
    {[raised |-> TRUE, content |-> <<>>]}
        \cup {[raised |-> FALSE, content |-> r] :
                 r \in {ExampleResponse, <<"Flu", " ">>}}

\* process_query(query, index_name): reply is the language model's answer
process_query(query, index_name, reply) ==
    LET l == load_vectorstore(vs_cache, faiss_store, index_name)
        call == [NoCall EXCEPT !.fn = "process_query",
                               !.index_name = index_name,
                               !.query = query]
        mode == IF IsReportQuery(query) THEN "report" ELSE "chat"
        asked == [call EXCEPT !.retriever_created = TRUE,
                              !.llm_created = TRUE,
                              !.llm_called = TRUE,
                              !.mode = mode,
                              !.retrieval_query = RetrievalQuery(query)]
    IN /\ vs_cache' = l.cache
       /\ IF l.raised
          THEN /\ ret' = [call EXCEPT !.type = "raised", !.raised = TRUE]
               /\ UNCHANGED parseVars
          ELSE IF l.vs.kind = "absent"
          THEN /\ ret' = [call EXCEPT !.type = "error"]
               /\ UNCHANGED parseVars
          ELSE \E docs \in Retrieve(l.vs, K) :
                  IF reply.raised
                  THEN /\ ret' = [asked EXCEPT !.type = "raised",
                                               !.raised = TRUE]
                       /\ UNCHANGED parseVars
                  ELSE IF mode = "report"
                  THEN /\ response' = reply.content
                       /\ diagnosis' = ExtractDiagnosis(reply.content)
                       /\ meds' = ExtractMeds(reply.content)
                       /\ parse_done' = TRUE
                       /\ ret' = [asked EXCEPT !.type = "report",
                                               !.sources = docs]
                  ELSE /\ ret' = [asked EXCEPT !.type = "chat",
                                               !.sources = docs]
                       /\ UNCHANGED parseVars
       /\ UNCHANGED <<diskVars, chunkVars>>

(***************************************************************************)
(* The Streamlit controls of chatbot_app.py                                *)
(***************************************************************************)
\* the Process File button, shown while no index is loaded
ClickProcessFile ==
    /\ ~index_loaded
    /\ \E f \in FileNames, reply \in ServiceReplies, fault \in Faults :
          process_uploaded_file(f, reply, fault)
    /\ UNCHANGED messages

\* a chat input shown whether or not an index is loaded
ChatInputAlwaysShown ==
    /\ Len(messages) + 2 <= MaxMessages
    /\ \E q \in Queries, reply \in LlmReplies :
          process_query(q, current_index, reply)
    /\ messages' = IF ret'.raised
                   THEN Append(messages, "user")
                   ELSE messages \o <<"user", "assistant">>
    /\ UNCHANGED <<index_loaded, current_index>>

\* the chat input, shown while an index is loaded
ChatInput ==
    /\ index_loaded
    /\ Len(messages) + 2 <= MaxMessages
    /\ \E q \in Queries, reply \in LlmReplies :
          process_query(q, current_index, reply)
    /\ messages' = IF ret'.raised
                   THEN Append(messages, "user")
                   ELSE messages \o <<"user", "assistant">>
    /\ UNCHANGED <<index_loaded, current_index>>

\* the sidebar's Generate Report button
ClickGenerateReport ==
    /\ index_loaded
    /\ Len(messages) + 2 <= MaxMessages
    /\ \E reply \in LlmReplies :
          process_query(GenerateReportButton, current_index, reply)
    /\ messages' = IF ret'.raised
                   THEN Append(messages, "user")
                   ELSE messages \o <<"user", "assistant">>
    /\ UNCHANGED <<index_loaded, current_index>>

\* the sidebar's Clear Chat History button
ClickClearChatHistory ==
    /\ index_loaded
    /\ messages' = <<>>
    /\ UNCHANGED <<index_loaded, current_index, diskVars, vs_cache, ret,
                   chunkVars, parseVars>>

\* the sidebar's Upload New Audio button
ClickUploadNewAudio ==
    /\ index_loaded
    /\ index_loaded' = FALSE
    /\ messages' = <<>>
    /\ UNCHANGED <<current_index, diskVars, vs_cache, ret,
                   chunkVars, parseVars>>

Init == InitChunkIdle /\ InitParseIdle /\ InitApp

Next ==
    \/ ClickProcessFile
    \/ ChatInput
    \/ ClickGenerateReport
    \/ ClickClearChatHistory
    \/ ClickUploadNewAudio

Spec == Init /\ [][Next]_vars

(***************************************************************************)
(* The functions called directly, in any order and with any index name.    *)
(***************************************************************************)
CallProcessUploadedFile ==
    /\ \E f \in FileNames, reply \in ServiceReplies, fault \in Faults :
          process_uploaded_file(f, reply, fault)
    /\ UNCHANGED messages

CallProcessQuery ==
    /\ \E q \in Queries, n \in IndexNames, reply \in LlmReplies :
          process_query(q, n, reply)
    /\ UNCHANGED sessionVars

NextApi ==
    \/ CallProcessUploadedFile
    \/ CallProcessQuery

SpecApi == Init /\ [][NextApi]_vars

(***************************************************************************)
(* The chunker called on every text and budget within the bounds.          *)
(***************************************************************************)
NextChunk == CallSplitTextIntoChunks /\ UNCHANGED <<parseVars, appVars>>

InitChunkCalls == InitChunk /\ InitParseIdle /\ InitApp

SpecChunk == InitChunkCalls /\ [][NextChunk]_vars

(***************************************************************************)
(* The report parser applied to every response within the bounds.          *)
(***************************************************************************)
NextReport == ParseReportResponse /\ UNCHANGED <<chunkVars, appVars>>

InitReportParses == InitChunkIdle /\ InitParse /\ InitApp

SpecReport == InitReportParses /\ [][NextReport]_vars

(***************************************************************************)
(* Claims about the chunker, checked under SpecChunk.                      *)
(***************************************************************************)
\* the paragraph sequence of the text: text.split("\n\n")
Paragraphs(t) == Split(t, ParagraphSep)

\* the chunks split back on the separator, concatenated in chunk order
RECURSIVE SplitAll(_)
SplitAll(cs) ==
    IF cs = <<>> THEN <<>>
    ELSE Paragraphs(Head(cs)) \o SplitAll(Tail(cs))

\* every paragraph trimmed, the blank ones left out
RECURSIVE TrimmedNonBlank(_)
TrimmedNonBlank(ps) ==
    IF ps = <<>> THEN <<>>
    ELSE IF Strip(Head(ps)) = <<>>
         THEN TrimmedNonBlank(Tail(ps))
         ELSE <<Strip(Head(ps))>> \o TrimmedNonBlank(Tail(ps))

C3_ExactParagraphs ==
    chunk_done => SplitAll(chunks) = Paragraphs(text)

\* C3 (amended): splitting the chunks back on the blank-line separator gives
\* the paragraph sequence of the text up to surrounding whitespace: the
\* trimmed non-blank paragraphs, each exactly once and in their order.
C3_TrimmedParagraphs ==
    chunk_done =>
        TrimmedNonBlank(SplitAll(chunks)) = TrimmedNonBlank(Paragraphs(text))

\* C3 witness: a call whose text has several non-blank paragraphs, spread
\* over several chunks, one of them holding more than one paragraph.
C3_Witness ==
    /\ chunk_done
    /\ Len(Paragraphs(text)) >= 3
    /\ TrimmedNonBlank(Paragraphs(text)) = Paragraphs(text)
    /\ Len(chunks) >= 2
    /\ \E i \in 1..Len(chunks) : Contains(chunks[i], ParagraphSep)

\* C4: split_text_into_chunks("", M) returns the empty list for every M.
C4_EmptyTextNoChunks ==
    (chunk_done /\ text = <<>>) => chunks = <<>>

(***************************************************************************)
(* Claims about the report parser, checked under SpecReport.               *)
(***************************************************************************)
\* C5: for a response 'Diagnosis' + separator + D + line break +
\* 'Medications' + separator + M, the extracted diagnosis is exactly D and
\* the extracted medications exactly M.
C5_StructuredResponseParsed ==
    parse_done =>
        \A sep \in Separators, D \in DiagnosisTexts, M \in MedicationTexts :
            response = StructuredResponse(sep, D, M) =>
                diagnosis = D /\ meds = M

\* C6 (as stated): for a response without "Medications", the medications is
\* "Not found." and the diagnosis is the whole response trimmed, whether or
\* not the response contains "Diagnosis".
C6_WholeResponseTrimmed ==
    (parse_done /\ ~Contains(response, MedicationsMarker)) =>
        /\ meds = NotFound
        /\ diagnosis = Strip(response)

\* C6 (amended): for a response without "Medications", the medications is
\* "Not found."; the diagnosis is the response with every "Diagnosis" removed
\* and then trimmed when the response contains "Diagnosis", and the response
\* exactly as returned, untrimmed, when it does not.
C6_NoMedications ==
    (parse_done /\ ~Contains(response, MedicationsMarker)) =>
        /\ meds = NotFound
        /\ Contains(response, DiagnosisMarker) =>
              /\ ~Contains(diagnosis, DiagnosisMarker)
              /\ diagnosis = Strip(Replace(response, DiagnosisMarker, <<>>))
        /\ ~Contains(response, DiagnosisMarker) => diagnosis = response

\* C6 witness: a parsed response without "Medications" that holds
\* "Diagnosis" and text around it.
C6_Witness ==
    /\ parse_done
    /\ ~Contains(response, MedicationsMarker)
    /\ Contains(response, DiagnosisMarker)
    /\ Len(response) = 3
    /\ diagnosis = <<"Flu">>
    /\ meds = NotFound

(***************************************************************************)
(* Claims about the application.                                           *)
(***************************************************************************)
\* C1: a process_query against a name retrieves only chunks of the newest
\* build of that name, none of an earlier build's (checked under Spec).
C1_OnlyNewestBuildRetrieved ==
    (/\ ret.fn = "process_query"
     /\ ret.type \in {"chat", "report"}
     /\ faiss_store[ret.index_name].kind = "index") =>
        \A doc \in ret.sources : doc.ver = faiss_store[ret.index_name].ver

\* C7: process_query with a name for which no index exists returns a result
\* of type "error" with an empty source list, without raising and without
\* creating or calling the language model or the retriever (checked under
\* SpecApi).
C7_NoIndexIsError ==
    (/\ ret.fn = "process_query"
     /\ faiss_store[ret.index_name].kind = "absent") =>
        /\ ret.type = "error"
        /\ ret.sources = {}
        /\ ~ret.raised
        /\ ~ret.retriever_created
        /\ ~ret.llm_created
        /\ ~ret.llm_called

\* C8: on every exit path of process_uploaded_file the temporary audio file
\* has been removed when the function returns (checked under Spec).
C8_TempFileRemoved ==
    ret.fn = "process_uploaded_file" => ~ret.tmp_exists

\* C9: a query that finds an index is routed to report mode exactly when its
\* lower-cased text contains "generate report" or "download report", and to
\* chat mode otherwise; report mode retrieves with the fixed query, chat mode
\* with the user's text (checked under SpecApi).
C9_Routing ==
    (ret.fn = "process_query" /\ ret.retriever_created) =>
        /\ ret.mode = "report" <=>
              \/ Contains(Lower(ret.query), <<"generate", " ", "report">>)
              \/ Contains(Lower(ret.query), <<"download", " ", "report">>)
        /\ ret.mode \in {"report", "chat"}
        /\ ret.mode = "report" =>
              /\ ret.retrieval_query = ReportRetrievalQuery
              /\ ret.type \in {"report", "raised"}
        /\ ret.mode = "chat" =>
              /\ ret.retrieval_query = ret.query
              /\ ret.type \in {"chat", "raised"}
        /\ ret.query = PleaseGenerateReportNow => ret.mode = "report"
        /\ ret.query = GenerateASummary => ret.mode = "chat"

\* C9 witness: "Please GENERATE REPORT now" answered with a report.
C9_Witness ==
    /\ ret.fn = "process_query"
    /\ ret.query = PleaseGenerateReportNow
    /\ ret.type = "report"
    /\ ret.retrieval_query = ReportRetrievalQuery
    /\ ret.sources # {}

\* C10: after store_in_faiss completes, the index at index_dir holds exactly
\* the given chunks, whatever was stored there before (checked under SpecApi).
C10_ExactlyGivenChunks ==
    (ret.fn = "process_uploaded_file" /\ ret.exit = "success") =>
        /\ faiss_store[ret.index_name].kind = "index"
        /\ faiss_store[ret.index_name].chunks = ret.given_chunks
        /\ faiss_store[ret.index_name].ver = builds

\* C10 witness: a store that completed over an index already at index_dir.
C10_Witness ==
    /\ ret.fn = "process_uploaded_file"
    /\ ret.exit = "success"
    /\ ret.replaced
    /\ ret.given_chunks # <<>>

(***************************************************************************)
(* Claims about the Streamlit controls, checked under Spec.                *)
(***************************************************************************)
\* what holds of index_loaded and of the latest call in every state
C11_State ==
    /\ index_loaded => faiss_store[current_index].kind = "index"
    /\ (ret.fn = "process_uploaded_file" /\ ret.exit # "success") =>
          ~index_loaded
    /\ (ret.fn = "process_uploaded_file" /\ index_loaded) =>
          ret.index_name = current_index
    /\ ret.fn = "process_query" =>
          /\ ret.index_name = current_index
          /\ faiss_store[ret.index_name].kind = "index"
          /\ ret.type # "error"

\* what holds of every step: index_loaded is set only by a
\* process_uploaded_file that succeeded and stored the index of current_index,
\* and process_query runs only while index_loaded is true
C11_Step ==
    /\ (~index_loaded /\ index_loaded') =>
          /\ ret'.fn = "process_uploaded_file"
          /\ ret'.exit = "success"
          /\ ret'.index_name = current_index'
          /\ faiss_store'[current_index'].kind = "index"
          /\ faiss_store'[current_index'].ver = builds'
          /\ builds' = builds + 1
    /\ (ret'.fn = "process_query" /\ ret' # ret) =>
          /\ index_loaded
          /\ index_loaded'
          /\ ret'.index_name = current_index
    /\ (ret'.fn = "process_uploaded_file" /\ ret' # ret) => ~index_loaded

====
